---- MODULE Spec2Model ----
\* The scene-driven fixed-timestep game loop of src/game.js.
\*
\* The file holds two near-duplicate programs: lines 1-211 draw in a fixed
\* 800x600 virtual world ("fixed"), lines 213-419 use the window size as the
\* world ("dynamic").  `variant` selects the program; everything else is the
\* state of that program.
\*
\* Units.  Time is counted in thirds of a millisecond, so that the step
\* 1000/60 ms is the integer 50.  Lengths are whole pixels: the code's
\* floating-point positions are kept to the pixel, and the one irrational
\* quantity, the diagonal component speed*dt/sqrt(2), is truncated.
\*
\* JavaScript runs each callback to completion, so event handlers run only
\* between frames (pc = "idle"); a frame is LoopBegin, one UpdateStep per
\* iteration of the catch-up loop, LoopExit and Draw.  CallSetScene, which
\* is part of SetSceneSpec only, applies setScene as a function, to any scene
\* name, in a state the program has reached.
\*
\* Left out, as nothing in the scenes' logic reads them: the FPS counter
\* (frames, fpsTimer), the mouse position, the canvas size and scale of the
\* fixed program, and what the draw functions paint.
EXTENDS Integers, Sequences, FiniteSets, TLC

VARIABLES
  variant,       \* "fixed" (lines 1-211) or "dynamic" (lines 213-419)
  WIDTH, HEIGHT, \* the world size of the dynamic program (0, unused, in the
                 \* fixed one)
  keys,          \* input.keys
  mouseDown,     \* input.mouse.down
  current,       \* the current scene's name
  stateText,     \* stateEl.textContent
  player,        \* the game scene's player: [x, y, w, h, speed]
  coins,         \* the game scene's coins: a sequence of [x, y, w, h]
  score,         \* the game scene's score
  accumulator,   \* time not yet consumed by an update
  pc,            \* "idle", "while" (in the catch-up loop), "draw"; "called"
                 \* after CallSetScene
  rafPending,    \* frame callbacks requested and not yet run
  totalElapsed,  \* history: sum of the deltas fed to loop
  updates,       \* history: number of scene update calls so far
  frameTotal,    \* history: accumulator + delta at the start of this frame
  frameSteps,    \* history: update calls made by this frame
  last,          \* history: what the latest update call of this frame did
  pausedAt,      \* history: the game state at the pause still in force, or
                 \* resumed from in this frame
  frameScene,    \* history: `current` when this frame began ("none" between
                 \* frames)
  drawn          \* history: the scene the latest frame drew ("none" while a
                 \* frame is running and before the first)

vars == <<variant, WIDTH, HEIGHT, keys, mouseDown, current, stateText, player,
          coins, score, accumulator, pc, rafPending, totalElapsed, updates,
          frameTotal, frameSteps, last, pausedAt, frameScene, drawn>>

----------------------------------------------------------------------------
\* Program constants

BASE_WIDTH == 800
BASE_HEIGHT == 600
PLAYER_W == 24
PLAYER_H == 24
PLAYER_SPEED == 180
COIN_SIZE == 12
SPAWN_MARGIN == 16
COIN_COUNT == 10
REWARD == 10
\* one second, in thirds of a millisecond (the 1000 of 1000 / 60)
SECOND == 3000
STEPS_PER_SECOND == 60
FIXED_DT == SECOND \div STEPS_PER_SECOND

----------------------------------------------------------------------------
\* Bounds of the model

\* no frame is started that would take the update count beyond this
MaxUpdates == 4
\* at most this many inputs (keys, the mouse button) are held down at once
MaxHeld == 2

\* the keys the events deliver (update also reads ArrowRight, a, s, ArrowUp
\* and w, which are then never held)
Keys == {"ArrowLeft", "d", "ArrowDown", "Escape", "Enter"}
\* the deltas (now - last) a frame may see
Elapsed == {0, FIXED_DT \div 2, 2 * FIXED_DT + FIXED_DT \div 2}
\* the sizes the window takes
WindowSizes == {<<40, 12>>, <<64, 60>>}

----------------------------------------------------------------------------
\* Arithmetic helpers

Max(a, b) == IF a >= b THEN a ELSE b
Min(a, b) == IF a <= b THEN a ELSE b
\* a JavaScript boolean used as a number
Num(b) == IF b THEN 1 ELSE 0
\* floor of the square root
ISqrt(n) == CHOOSE r \in 0..n : r * r <= n /\ (r + 1) * (r + 1) > n

\* the world the game scene plays in
WorldW == IF variant = "fixed" THEN BASE_WIDTH ELSE WIDTH
WorldH == IF variant = "fixed" THEN BASE_HEIGHT ELSE HEIGHT

----------------------------------------------------------------------------
\* Helpers of the game scene

\* (mutant of rectsOverlap: <= and >= for < and >)
rectsOverlap_Closed(a, b) ==
  /\ a.x <= b.x + b.w
  /\ a.x + a.w >= b.x
  /\ a.y <= b.y + b.h
  /\ a.y + a.h >= b.y

rectsOverlap(a, b) ==
  /\ a.x < b.x + b.w
  /\ a.x + a.w > b.x
  /\ a.y < b.y + b.h
  /\ a.y + a.h > b.y

\* Math.random() * (world - 16) lies in [0, world - 16), or in
\* (world - 16, 0] when the world is narrower than 16
InSpawnRange(v, world) ==
  LET m == world - SPAWN_MARGIN
  IN  IF m > 0 THEN 0 <= v /\ v < m ELSE (m < v /\ v <= 0) \/ v = 0

\* the point of the spawn range nearest to v
Clip(v, world) ==
  LET m == world - SPAWN_MARGIN
  IN  IF m > 0 THEN Max(0, Min(m - 1, v))
      ELSE IF m < 0 THEN Max(m + 1, Min(0, v))
      ELSE 0

\* spawnCoins(n): n coins; pick[i] is the pair of random draws of coin i
spawnCoins(n, pick) ==
  [i \in 1..n |-> [x |-> pick[i][1], y |-> pick[i][2],
                   w |-> COIN_SIZE, h |-> COIN_SIZE]]

\* The random draws the model lets spawnCoins make in a world w x h.  The
\* coins fall on three spots (moved into the spawn range where the world is
\* too small for them): `on` lies under the centred player; `near` is
\* overlapped once the player has made one step to the left; `touch` is then
\* only touched, and overlapped after a second step.  Two arrangements along
\* the array: all on; and on, near, on, touch, ... in turn.
Picks(w, h) ==
  LET on    == <<Clip(w \div 2 + 6, w), Clip(h \div 2 + 6, h)>>
      near  == <<Clip(w \div 2 - 14, w), Clip(h \div 2 - 11, h)>>
      touch == <<Clip(w \div 2 - 15, w), Clip(h \div 2 - 11, h)>>
  IN  { [i \in 1..COIN_COUNT |-> on],
        [i \in 1..COIN_COUNT |->
           IF i % 2 = 1 THEN on ELSE IF i % 4 = 2 THEN near ELSE touch] }

----------------------------------------------------------------------------
\* The scenes.  A scene function takes and returns the record g of what a
\* scene may change: current, stateText, player, coins, score, and two logs
\* of the call so far: trans, the <<from, to>> changes of `current`, and
\* calls, the scene methods entered, each as <<method, scene, the value of
\* `current` it finds>>.

\* g with the call of a method of a scene logged
called(g, method, name) ==
  [g EXCEPT !.calls = Append(g.calls, <<method, name, g.current>>)]

\* createGameScene().enter: empty in the fixed program (line 144), a full
\* reset in the dynamic one (lines 347-352)
\* (mutant of gameEnter: the score is not reset)
gameEnter_KeepScore(g, pick) ==
  IF variant = "fixed" THEN g
  ELSE [g EXCEPT !.coins = spawnCoins(COIN_COUNT, pick),
                 !.player.x = WorldW \div 2,
                 !.player.y = WorldH \div 2]

gameEnter(g, pick) ==
  IF variant = "fixed" THEN g
  ELSE [g EXCEPT !.coins = spawnCoins(COIN_COUNT, pick),
                 !.score = 0,
                 !.player.x = WorldW \div 2,
                 !.player.y = WorldH \div 2]

\* scenes[name].enter(); menu and pause have empty hooks
sceneEnter(g, name, pick) ==
  LET g1 == called(g, "enter", name)
  IN  IF name = "game" THEN gameEnter(g1, pick) ELSE g1

\* scenes[name].exit(): every scene's exit hook is empty
sceneExit(g, name) == called(g, "exit", name)

\* current = name
setCurrent(g, name) ==
  [g EXCEPT !.current = name, !.trans = Append(g.trans, <<g.current, name>>)]

\* (mutant of setScene: no early return when the scene is the current one)
setScene_NoGuard(g, name, pick) ==
  LET g1 == sceneExit(g, g.current)
      g2 == setCurrent(g1, name)
      g3 == sceneEnter(g2, g2.current, pick)
  IN  [g3 EXCEPT !.stateText = g3.current]

\* (mutant of setScene: the new scene is entered before `current` is set)
setScene_EnterFirst(g, name, pick) ==
  IF name = g.current THEN g
  ELSE LET g1 == sceneExit(g, g.current)
           g2 == sceneEnter(g1, name, pick)
           g3 == setCurrent(g2, name)
       IN  [g3 EXCEPT !.stateText = g3.current]

setScene(g, name, pick) ==
  IF name = g.current THEN g
  ELSE LET g1 == sceneExit(g, g.current)
           g2 == setCurrent(g1, name)
           g3 == sceneEnter(g2, g2.current, pick)
       IN  [g3 EXCEPT !.stateText = g3.current]

menuUpdate(g, dt, pick) ==
  LET g0 == called(g, "update", "menu")
  IN  IF "Enter" \in keys \/ mouseDown THEN setScene(g0, "game", pick) ELSE g0

\* (mutant of pauseUpdate: the pause scene resumes on Enter, not on Escape)
pauseUpdate_OnEnter(g, dt, pick) ==
  LET g0 == called(g, "update", "pause")
  IN  IF "Enter" \in keys THEN setScene(g0, "game", pick) ELSE g0

pauseUpdate(g, dt, pick) ==
  LET g0 == called(g, "update", "pause")
  IN  IF "Escape" \in keys THEN setScene(g0, "game", pick) ELSE g0

\* one component of (a / len) * speed * dt, len2 being len squared
Component(a, len2, dist) == a * ISqrt((dist * dist) \div len2)

\* (mutant of moved: the input vector is not normalised)
moved_NoNorm(p, dt) ==
  LET ax == Num("ArrowRight" \in keys \/ "d" \in keys)
              - Num("ArrowLeft" \in keys \/ "a" \in keys)
      ay == Num("ArrowDown" \in keys \/ "s" \in keys)
              - Num("ArrowUp" \in keys \/ "w" \in keys)
      dist == (p.speed * dt) \div SECOND
  IN  [p EXCEPT !.x = p.x + Component(ax, 1, dist),
                !.y = p.y + Component(ay, 1, dist)]

\* the player's position after the movement of update, before clamping
moved(p, dt) ==
  LET ax == Num("ArrowRight" \in keys \/ "d" \in keys)
              - Num("ArrowLeft" \in keys \/ "a" \in keys)
      ay == Num("ArrowDown" \in keys \/ "s" \in keys)
              - Num("ArrowUp" \in keys \/ "w" \in keys)
      h2 == ax * ax + ay * ay
      len2 == IF h2 = 0 THEN 1 ELSE h2
      dist == (p.speed * dt) \div SECOND
  IN  [p EXCEPT !.x = p.x + Component(ax, len2, dist),
                !.y = p.y + Component(ay, len2, dist)]

\* (mutant of clamp: the upper clamp is left out)
clamp_LowOnly(v, limit) == Max(0, v)

\* Math.max(0, Math.min(limit, v))
clamp(v, limit) == Max(0, Min(limit, v))

\* the movement and clamping of update: the player after them
movePlayer(p, dt) ==
  LET q == moved(p, dt)
  IN  [q EXCEPT !.x = clamp(q.x, WorldW - q.w),
                !.y = clamp(q.y, WorldH - q.h)]

\* coins.splice(i, 1)
splice(cs, i) == [j \in 1..(Len(cs) - 1) |-> IF j < i THEN cs[j] ELSE cs[j + 1]]

\* (mutant of collectOne: the score is assigned, not incremented)
collectOne_Assign(g, i) ==
  [g EXCEPT !.coins = splice(g.coins, i), !.score = REWARD]

\* the body of the overlap branch: coin i is removed and paid for
collectOne(g, i) ==
  [g EXCEPT !.coins = splice(g.coins, i), !.score = g.score + REWARD]

\* the reverse loop over the coins, from (1-based) index i down
RECURSIVE collect(_, _)
collect(g, i) ==
  IF i < 1 THEN g
  ELSE IF rectsOverlap(g.player, g.coins[i])
       THEN collect(collectOne(g, i), i - 1)
       ELSE collect(g, i - 1)

\* (mutant of gameTransitions: the win test comes before the pause test)
gameTransitions_WinFirst(g, pick) ==
  LET g1 == IF Len(g.coins) = 0 THEN setScene(g, "menu", pick) ELSE g
  IN  IF "Escape" \in keys THEN setScene(g1, "pause", pick) ELSE g1

\* the two transitions that end update; neither enters the game scene
gameTransitions(g, pick) ==
  LET g1 == IF "Escape" \in keys THEN setScene(g, "pause", pick) ELSE g
  IN  IF Len(g1.coins) = 0 THEN setScene(g1, "menu", pick) ELSE g1

gameUpdate(g, dt, pick) ==
  LET g0 == called(g, "update", "game")
      g1 == [g0 EXCEPT !.player = movePlayer(g0.player, dt)]
      g2 == collect(g1, Len(g1.coins))
  IN  gameTransitions(g2, pick)

\* (mutant of sceneUpdate: the pause scene runs the game's update)
sceneUpdate_PauseRunsGame(name, g, dt, pick) ==
  CASE name = "menu"  -> menuUpdate(g, dt, pick)
    [] name = "game"  -> gameUpdate(g, dt, pick)
    [] name = "pause" -> gameUpdate(g, dt, pick)

\* scenes[name].update(dt)
sceneUpdate(name, g, dt, pick) ==
  CASE name = "menu"  -> menuUpdate(g, dt, pick)
    [] name = "game"  -> gameUpdate(g, dt, pick)
    [] name = "pause" -> pauseUpdate(g, dt, pick)

----------------------------------------------------------------------------
\* The state machine

G == [current |-> current, stateText |-> stateText, player |-> player,
      coins |-> coins, score |-> score, trans |-> <<>>, calls |-> <<>>]

\* `last` when the frame has made no update call yet.  Its fields: upd, the
\* scene whose update ran ("setScene" after CallSetScene, with arg the scene
\* name passed); dt, the argument it got; removed, the number of coins it
\* removed; trans, the changes of `current` it made, in order; calls, the
\* scene methods it entered, in order; cur0, text0, player0, score0 and
\* coins0, the values of current, the status text, the player, the score and
\* the coins before it.
NoUpdate == [upd |-> "none", arg |-> "none", dt |-> 0, removed |-> 0,
             trans |-> <<>>, calls |-> <<>>, cur0 |-> "none",
             text0 |-> "none", player0 |-> <<>>, score0 |-> 0,
             coins0 |-> <<>>]

\* `pausedAt` when no pause is in force
NotPaused == [at |-> "never"]

Init ==
  /\ variant \in {"fixed", "dynamic"}
  /\ IF variant = "fixed"
     THEN WIDTH = 0 /\ HEIGHT = 0
     ELSE \E s \in WindowSizes : WIDTH = s[1] /\ HEIGHT = s[2]
  /\ keys = {}
  /\ mouseDown = FALSE
  /\ current = "menu"
  /\ stateText = "menu"
  /\ player = [x |-> WorldW \div 2, y |-> WorldH \div 2, w |-> PLAYER_W,
               h |-> PLAYER_H, speed |-> PLAYER_SPEED]
  /\ \E pick \in Picks(WorldW, WorldH) : coins = spawnCoins(COIN_COUNT, pick)
  /\ score = 0
  /\ accumulator = 0
  /\ pc = "idle"
  /\ rafPending = 1
  /\ totalElapsed = 0
  /\ updates = 0
  /\ frameTotal = 0
  /\ frameSteps = 0
  /\ last = NoUpdate
  /\ pausedAt = NotPaused
  /\ frameScene = "none"
  /\ drawn = "none"

scene == <<current, stateText, player, coins, score>>
clock == <<accumulator, totalElapsed, updates, frameTotal, frameSteps>>
history == <<last, pausedAt, frameScene, drawn>>

KeyDown(k) ==
  /\ pc = "idle"
  /\ Cardinality(keys \cup {k}) + Num(mouseDown) <= MaxHeld
  /\ keys' = keys \cup {k}
  /\ UNCHANGED <<variant, WIDTH, HEIGHT, mouseDown, scene, clock, pc,
                 rafPending, history>>

KeyUp(k) ==
  /\ pc = "idle"
  /\ k \in keys
  /\ keys' = keys \ {k}
  /\ UNCHANGED <<variant, WIDTH, HEIGHT, mouseDown, scene, clock, pc,
                 rafPending, history>>

MouseDown ==
  /\ pc = "idle"
  /\ Cardinality(keys) + 1 <= MaxHeld
  /\ mouseDown' = TRUE
  /\ UNCHANGED <<variant, WIDTH, HEIGHT, keys, scene, clock, pc,
                 rafPending, history>>

MouseUp ==
  /\ pc = "idle"
  /\ mouseDown' = FALSE
  /\ UNCHANGED <<variant, WIDTH, HEIGHT, keys, scene, clock, pc,
                 rafPending, history>>

\* fitCanvasToWindow as the resize handler of the dynamic program; in the
\* fixed program it changes the canvas size only, which no scene reads
Resize(w, h) ==
  /\ pc = "idle"
  /\ variant = "dynamic"
  /\ WIDTH' = w
  /\ HEIGHT' = h
  /\ UNCHANGED <<variant, keys, mouseDown, scene, clock, pc,
                 rafPending, history>>

\* loop(now) up to the catch-up loop; e is now - last
LoopBegin(e) ==
  /\ pc = "idle"
  /\ rafPending > 0
  /\ updates + (accumulator + e) \div FIXED_DT <= MaxUpdates
  /\ rafPending' = rafPending - 1
  /\ accumulator' = accumulator + e
  /\ totalElapsed' = totalElapsed + e
  /\ frameTotal' = accumulator + e
  /\ frameSteps' = 0
  /\ pc' = "while"
  /\ frameScene' = current
  /\ drawn' = "none"
  /\ UNCHANGED <<variant, WIDTH, HEIGHT, keys, mouseDown, scene, updates,
                 last, pausedAt>>

\* (mutant of LoopTest: > for >=)
LoopTest_Strict == accumulator > FIXED_DT

\* the test of the catch-up loop
LoopTest == accumulator >= FIXED_DT

\* the dt the loop hands to update, in time units (FIXED_DT / 1000 seconds)
LoopDt == FIXED_DT

\* (mutant of LoopConsume: the accumulator is reset, dropping the remainder)
LoopConsume_Reset(acc) == 0

\* the accumulator after one iteration of the catch-up loop
LoopConsume(acc) == acc - FIXED_DT

\* (mutant of LoopScene: the scene is looked up once, when the frame begins)
LoopScene_Stale == frameScene

\* the scene the loop looks up, scenes[current], in each iteration and for
\* the draw
LoopScene == current

\* one iteration of the catch-up loop
UpdateStep ==
  /\ pc = "while"
  /\ LoopTest
  /\ \E pick \in Picks(WorldW, WorldH) :
       LET g == sceneUpdate(LoopScene, G, LoopDt, pick)
       IN  /\ current' = g.current
           /\ stateText' = g.stateText
           /\ player' = g.player
           /\ coins' = g.coins
           /\ score' = g.score
           /\ last' = [upd |-> LoopScene, arg |-> "none", dt |-> LoopDt,
                       removed |-> IF LoopScene = "game"
                                   THEN Len(coins) - Len(g.coins) ELSE 0,
                       trans |-> g.trans, calls |-> g.calls,
                       cur0 |-> current, text0 |-> stateText,
                       player0 |-> player, score0 |-> score,
                       coins0 |-> coins]
           /\ pausedAt' = IF current = "game" /\ g.current = "pause"
                          THEN [at |-> "paused", player |-> g.player,
                                coins |-> g.coins, score |-> g.score]
                          ELSE pausedAt
  /\ accumulator' = LoopConsume(accumulator)
  /\ updates' = updates + 1
  /\ frameSteps' = frameSteps + 1
  /\ UNCHANGED <<variant, WIDTH, HEIGHT, keys, mouseDown, pc, rafPending,
                 totalElapsed, frameTotal, frameScene, drawn>>

\* the catch-up loop ends
LoopExit ==
  /\ pc = "while"
  /\ ~LoopTest
  /\ pc' = "draw"
  /\ UNCHANGED <<variant, WIDTH, HEIGHT, keys, mouseDown, scene, clock,
                 rafPending, history>>

\* (mutant of Request: the next frame is not requested)
Request_None(n) == n

\* the frame callbacks pending after requestAnimationFrame(loop)
Request(n) == n + 1

\* scenes[current].draw() and requestAnimationFrame(loop)
Draw ==
  /\ pc = "draw"
  /\ pc' = "idle"
  /\ drawn' = LoopScene
  /\ rafPending' = Request(rafPending)
  /\ frameTotal' = 0
  /\ frameSteps' = 0
  /\ frameScene' = "none"
  /\ last' = NoUpdate
  /\ pausedAt' = IF current = "pause" THEN pausedAt ELSE NotPaused
  /\ UNCHANGED <<variant, WIDTH, HEIGHT, keys, mouseDown, scene, accumulator,
                 totalElapsed, updates>>

Next ==
  \/ \E k \in Keys : KeyDown(k)
  \/ \E k \in Keys : KeyUp(k)
  \/ MouseDown
  \/ MouseUp
  \/ \E s \in WindowSizes : Resize(s[1], s[2])
  \/ \E e \in Elapsed : LoopBegin(e)
  \/ UpdateStep
  \/ LoopExit
  \/ Draw

Spec == Init /\ [][Next]_vars

\* An iteration of the catch-up loop, told by its test and its count: a step
\* of Next raises `updates` exactly when it is a step of UpdateStep, and
\* UpdateStep can make a step whenever the loop test holds.
LoopStep == pc = "while" /\ LoopTest /\ updates' = updates + 1

\* A frame, once begun, runs to its end: the callback is one synchronous run
\* of loop, which no event handler interleaves.
FairSpec ==
  Spec /\ WF_updates(LoopStep) /\ WF_vars(LoopExit) /\ WF_vars(Draw)

Scenes == {"menu", "game", "pause"}

\* setScene(n) called in a state between frames, as a function on its own
CallSetScene(n) ==
  /\ pc = "idle"
  /\ \E pick \in Picks(WorldW, WorldH) :
       LET g == setScene(G, n, pick)
       IN  /\ current' = g.current
           /\ stateText' = g.stateText
           /\ player' = g.player
           /\ coins' = g.coins
           /\ score' = g.score
           /\ last' = [upd |-> "setScene", arg |-> n, dt |-> 0,
                       removed |-> 0, trans |-> g.trans, calls |-> g.calls,
                       cur0 |-> current, text0 |-> stateText,
                       player0 |-> player, score0 |-> score,
                       coins0 |-> coins]
  /\ pc' = "called"
  /\ UNCHANGED <<variant, WIDTH, HEIGHT, keys, mouseDown, clock, rafPending,
                 pausedAt, frameScene, drawn>>

SetSceneSpec == Init /\ [][Next \/ \E n \in Scenes : CallSetScene(n)]_vars

----------------------------------------------------------------------------
\* Properties

TypeOK ==
  /\ variant \in {"fixed", "dynamic"}
  /\ current \in {"menu", "game", "pause"}
  /\ pc \in {"idle", "while", "draw", "called"}
  /\ rafPending \in 0..1
  /\ frameScene \in Scenes \cup {"none"}
  /\ drawn \in Scenes \cup {"none"}
  /\ keys \subseteq Keys
  /\ mouseDown \in BOOLEAN
  /\ Len(coins) \in 0..COIN_COUNT

\* the draws of Picks are draws Math.random() * (world - 16) can make
PicksInRange ==
  \A pick \in Picks(WorldW, WorldH) : \A i \in 1..COIN_COUNT :
    InSpawnRange(pick[i][1], WorldW) /\ InSpawnRange(pick[i][2], WorldH)

\* C1: when a frame's catch-up loop has ended, the frame has made exactly
\* floor((accumulator_prev + e) / FIXED_DT) update calls and left an
\* accumulator in [0, FIXED_DT); so every frame starts from an accumulator in
\* [0, FIXED_DT).
C1_StepsPerFrame ==
  /\ pc = "idle" => (0 <= accumulator /\ accumulator < FIXED_DT)
  /\ pc = "draw" =>
       /\ frameSteps = frameTotal \div FIXED_DT
       /\ 0 <= accumulator
       /\ accumulator < FIXED_DT

\* C1 witness: a frame that started from a non-zero accumulator, made several
\* update calls and leaves a non-zero remainder
C1_Witness ==
  /\ pc = "draw"
  /\ frameSteps >= 2
  /\ accumulator > 0
  /\ frameTotal > frameSteps * FIXED_DT
  /\ totalElapsed > frameTotal

\* C2: no time is dropped: the update calls made so far, FIXED_DT each, plus
\* the accumulator, are the total time fed to loop; and every update call is
\* handed dt = FIXED_DT.
C2_NoTimeDropped ==
  /\ updates * FIXED_DT + accumulator = totalElapsed
  /\ last.upd /= "none" => last.dt = FIXED_DT

\* C2 witness: several frames in, an update call has just been made and a
\* remainder is carried
C2_Witness ==
  /\ variant = "fixed"
  /\ updates >= 3
  /\ accumulator > 0
  /\ last.upd = "game"
  /\ totalElapsed = updates * FIXED_DT + accumulator

\* a coordinate v of the player lies in [0, world - size]
InAxis(v, world, size) == 0 <= v /\ v <= world - size

InBounds ==
  /\ InAxis(player.x, WorldW, player.w)
  /\ InAxis(player.y, WorldH, player.h)

\* C3 as stated: after any game update the player lies in
\* [0, worldWidth - playerWidth] x [0, worldHeight - playerHeight], whatever
\* the world size.
C3_Original == last.upd = "game" => InBounds

\* a coordinate after clamping: in [0, world - size] when the world is at
\* least as large as the player, and 0 when it is smaller
ClampedAxis(v, world, size) ==
  IF world >= size THEN InAxis(v, world, size) ELSE v = 0

\* C3 amended: after any game update, on each axis, the player's coordinate is
\* in [0, world - size] if the world is at least as large as the player on
\* that axis, and is 0 if the world is smaller than the player.
C3_ClampedAfterUpdate ==
  last.upd = "game" =>
    /\ ClampedAxis(player.x, WorldW, player.w)
    /\ ClampedAxis(player.y, WorldH, player.h)

\* C3 witness: a game update with the right key held has left the player on
\* the right wall of a world larger than the player, and on the top edge of a
\* world lower than the player
C3_Witness ==
  /\ last.upd = "game"
  /\ "d" \in keys
  /\ WorldW > player.w
  /\ player.x = WorldW - player.w
  /\ WorldH < player.h
  /\ player.y = 0

\* C4: in every reachable state the player lies inside the world bounds minus
\* its own size (stated for the axes on which the world is at least as large
\* as the player, where the interval is not empty).
C4_AlwaysInBounds ==
  /\ WorldW >= player.w => InAxis(player.x, WorldW, player.w)
  /\ WorldH >= player.h => InAxis(player.y, WorldH, player.h)

\* C5: the transition pause -> game leaves coins, score and player as they
\* were when the game was paused.
C5_ResumeKeepsState ==
  (last.upd = "pause" /\ current = "game") =>
    /\ coins = pausedAt.coins
    /\ score = pausedAt.score
    /\ player = pausedAt.player

\* C6: every entry of the game scene from menu leaves the player at the world
\* centre, exactly 10 coins and score 0.
C6_EnterResets ==
  (last.upd = "menu" /\ current = "game") =>
    /\ player.x = WorldW \div 2
    /\ player.y = WorldH \div 2
    /\ Len(coins) = COIN_COUNT
    /\ score = 0

\* the coins of cs that overlap the box p
Overlapping(p, cs) == {i \in 1..Len(cs) : rectsOverlap(p, cs[i])}

\* C7: between entering the game from menu and returning to menu, pauses
\* included, no update call increases the number of coins, and a game update
\* decreases it by exactly the number of coins overlapping the player.
C7_CoinsNeverIncrease ==
  /\ last.upd \in {"game", "pause"} => Len(coins) <= Len(last.coins0)
  /\ last.upd = "game" =>
       Len(coins) = Len(last.coins0) - Cardinality(Overlapping(player, last.coins0))

\* C8: a game update adds to the score exactly 10 for each coin it removes,
\* and nothing when it removes none.
C8_ScorePerCoin ==
  last.upd = "game" => score = last.score0 + 10 * last.removed

\* C8 witness: in the fixed program, one game update has removed several coins
\* out of the middle of the array, from a score that was already positive
C8_Witness ==
  /\ variant = "fixed"
  /\ last.upd = "game"
  /\ last.removed >= 2
  /\ last.score0 > 0
  /\ score = last.score0 + 10 * last.removed

\* the changes of scene the state machine is documented to make
AllowedTransitions ==
  {<<"menu", "game">>, <<"game", "pause">>, <<"pause", "game">>,
   <<"game", "menu">>}

\* C9: the machine starts in menu, and every change of `current` made by
\* setScene is menu->game, game->pause, pause->game or game->menu.
C9_OnlyListedTransitions ==
  /\ updates = 0 => current = "menu"
  /\ \A i \in 1..Len(last.trans) : last.trans[i] \in AllowedTransitions

\* C10: a game update that ends with no coin left ends in menu, whether or
\* not Escape is held.
C10_WinEndsInMenu ==
  (last.upd = "game" /\ Len(coins) = 0) => current = "menu"

\* C10 witness: in the dynamic program, the last coins were removed by a game
\* update made with Escape held, and the scene is menu
C10_Witness ==
  /\ variant = "dynamic"
  /\ last.upd = "game"
  /\ Len(coins) = 0
  /\ last.removed >= 1
  /\ "Escape" \in keys
  /\ current = "menu"

\* the scene hooks (exit, enter) among the logged calls
Hooks(calls) == SelectSeq(calls, LAMBDA c : c[1] /= "update")

\* C11: setScene called with the scene that is current enters no exit and no
\* enter hook and leaves current, the status text, the player, the coins and
\* the score as they were.
C11_SameSceneNoOp ==
  (last.upd = "setScene" /\ last.arg = last.cur0) =>
    /\ last.calls = <<>>
    /\ last.trans = <<>>
    /\ current = last.cur0
    /\ stateText = last.text0
    /\ player = last.player0
    /\ coins = last.coins0
    /\ score = last.score0

\* C11 witness: in the dynamic program, setScene("game") was called in the
\* game scene with coins collected and the player moved off the centre
C11_Witness ==
  /\ variant = "dynamic"
  /\ pc = "called"
  /\ last.upd = "setScene"
  /\ last.arg = "game"
  /\ last.cur0 = "game"
  /\ score > 0
  /\ player.x /= WorldW \div 2

\* C12: every change of scene made by setScene enters, in this order and once
\* each, the exit hook of the old scene, which finds `current` still the old
\* scene, and after `current` is set the enter hook of the new scene, which
\* finds `current` already the new scene; setScene called with a scene other
\* than the current one makes exactly one such change, to that scene.
C12_ExitSetEnter ==
  /\ Len(Hooks(last.calls)) = 2 * Len(last.trans)
  /\ \A i \in 1..Len(last.trans) :
       /\ Hooks(last.calls)[2 * i - 1]
            = <<"exit", last.trans[i][1], last.trans[i][1]>>
       /\ Hooks(last.calls)[2 * i]
            = <<"enter", last.trans[i][2], last.trans[i][2]>>
  /\ (last.upd = "setScene" /\ last.arg /= last.cur0) =>
       /\ last.trans = << <<last.cur0, last.arg>> >>
       /\ current = last.arg
       /\ stateText = last.arg

\* C12 witness: setScene("menu") was called in the pause scene
C12_Witness ==
  /\ pc = "called"
  /\ last.upd = "setScene"
  /\ last.cur0 = "pause"
  /\ last.arg = "menu"
  /\ last.calls = << <<"exit", "pause", "pause">>, <<"enter", "menu", "menu">> >>
  /\ current = "menu"

\* C13: a game update made with no key held leaves the player where it was.
C13_NoKeysNoMove ==
  (last.upd = "game" /\ keys = {}) =>
    (player.x = last.player0.x /\ player.y = last.player0.y)

\* C14: a pause update made with Escape not held leaves the scene pause and
\* the player, the coins and the score as they were, whatever other keys are
\* held; and for as long as the scene is pause they are what they were when
\* the game was paused.
C14_PauseFrozen ==
  /\ (last.upd = "pause" /\ "Escape" \notin keys) =>
       /\ current = "pause"
       /\ player = last.player0
       /\ coins = last.coins0
       /\ score = last.score0
  /\ current = "pause" =>
       /\ pausedAt /= NotPaused
       /\ player = pausedAt.player
       /\ coins = pausedAt.coins
       /\ score = pausedAt.score

\* C14 witness: a pause update was made with a movement key held and Escape
\* released, after coins had been collected
C14_Witness ==
  /\ last.upd = "pause"
  /\ "Escape" \notin keys
  /\ "d" \in keys
  /\ current = "pause"
  /\ score > 0
  /\ Len(coins) > 0

\* the absolute value
Abs(v) == IF v < 0 THEN -v ELSE v

\* the horizontal and the vertical direction the held keys ask for
AxisX ==
  Num("ArrowRight" \in keys \/ "d" \in keys)
    - Num("ArrowLeft" \in keys \/ "a" \in keys)
AxisY ==
  Num("ArrowDown" \in keys \/ "s" \in keys)
    - Num("ArrowUp" \in keys \/ "w" \in keys)

\* the player ended the update strictly inside the world, so that the clamp
\* left the moved position as it was
Unclamped ==
  /\ 0 < player.x /\ player.x < WorldW - PLAYER_W
  /\ 0 < player.y /\ player.y < WorldH - PLAYER_H

\* C15: in an unclamped game update, with D = speed * dt in pixels: an axis
\* with no direction, or with both of its opposite directions held, does not
\* move; a direction on one axis only moves the player exactly D along it;
\* a direction on both axes moves the player by the same whole number n of
\* pixels on each, towards the directions held, with n the whole-pixel part
\* of D / sqrt(2), so that the displacement has magnitude D and not
\* D * sqrt(2).
C15_NormalisedStep ==
  (last.upd = "game" /\ Unclamped) =>
    LET dx == player.x - last.player0.x
        dy == player.y - last.player0.y
        D  == (PLAYER_SPEED * last.dt) \div SECOND
    IN  /\ AxisX = 0 => dx = 0
        /\ AxisY = 0 => dy = 0
        /\ (AxisX /= 0 /\ AxisY = 0) => dx = AxisX * D
        /\ (AxisX = 0 /\ AxisY /= 0) => dy = AxisY * D
        /\ (AxisX /= 0 /\ AxisY /= 0) =>
             /\ Abs(dx) = Abs(dy)
             /\ dx * AxisX > 0
             /\ dy * AxisY > 0
             /\ 2 * dx * dx <= D * D
             /\ D * D < 2 * (Abs(dx) + 1) * (Abs(dx) + 1)

\* C15 witness: an unclamped game update of the fixed program made with
\* right and down held
C15_Witness ==
  /\ variant = "fixed"
  /\ last.upd = "game"
  /\ keys = {"d", "ArrowDown"}
  /\ Unclamped
  /\ player.x > last.player0.x
  /\ player.y > last.player0.y

\* the open intervals (lo1, hi1) and (lo2, hi2) have a point in common
OpenMeet(lo1, hi1, lo2, hi2) == Max(lo1, lo2) < Min(hi1, hi2)

\* the rectangles a and b intersect as open intervals on both axes
OpenOverlap(a, b) ==
  /\ OpenMeet(a.x, a.x + a.w, b.x, b.x + b.w)
  /\ OpenMeet(a.y, a.y + a.h, b.y, b.y + b.h)

\* C16: after a game update the coins are, in their order, exactly the coins
\* from before it whose rectangle does not intersect, as open intervals on
\* both axes, the rectangle of the player as moved and clamped by the update;
\* a coin that only touches the player stays.
C16_RemovedIffOpenOverlap ==
  last.upd = "game" =>
    coins = SelectSeq(last.coins0, LAMBDA c : ~OpenOverlap(player, c))

\* C16 witness: a game update removed coins and left a coin whose right edge
\* is the player's left edge
C16_Witness ==
  /\ last.upd = "game"
  /\ last.removed >= 1
  /\ \E i \in 1..Len(coins) :
       /\ coins[i].x + coins[i].w = player.x
       /\ coins[i].y < player.y + player.h
       /\ player.y < coins[i].y + coins[i].h

\* C17: a frame callback is pending exactly between frames, one and no more;
\* every iteration of the catch-up loop takes FIXED_DT off the accumulator,
\* and leaves it non-negative, whatever the scene does; a frame in its
\* catch-up loop comes to the end of the loop; and a frame at the end of the
\* loop draws and is back between frames with the next frame requested.
C17_FrameTerminatesAndRearms ==
  /\ [](rafPending = IF pc = "idle" THEN 1 ELSE 0)
  /\ [][(pc = "while" /\ pc' = "while") =>
          (accumulator' = accumulator - FIXED_DT /\ accumulator' >= 0)]_vars
  /\ (pc = "while") ~> (pc = "draw")
  /\ (pc = "draw") ~> (pc = "idle" /\ drawn /= "none" /\ rafPending = 1)

\* C17 witness: a later frame has ended between frames, drawn the pause
\* scene and requested the next frame, with a remainder in the accumulator
C17_Witness ==
  /\ pc = "idle"
  /\ rafPending = 1
  /\ drawn = "pause"
  /\ updates >= 3
  /\ accumulator > 0

\* the update changed the scene to menu
WentToMenu == \E i \in 1..Len(last.trans) : last.trans[i][2] = "menu"

\* C18: in every state the score is 10 for each of the 10 coins no longer
\* there, hence a multiple of 10 from 0 to 100; and an update changes the
\* scene to menu exactly when it is a game update that ends with the score
\* at 100.
C18_ScoreCountsCoins ==
  /\ score = 10 * (10 - Len(coins))
  /\ \E n \in 0..10 : score = 10 * n
  /\ WentToMenu <=> (last.upd = "game" /\ score = 100)

\* C18 witness: a game update took the score from 80 to 100 and changed the
\* scene to menu
C18_Witness ==
  /\ last.upd = "game"
  /\ last.score0 = 80
  /\ score = 100
  /\ coins = <<>>
  /\ WentToMenu
  /\ current = "menu"

\* the other of the two scenes game and pause
Toggled(name) == IF name = "game" THEN "pause" ELSE "game"

\* C19: with Escape held, a game update that leaves at least one coin ends
\* in pause and a pause update ends in game; so in a frame that began in game
\* or pause with Escape held and nothing held that starts a game from the
\* menu, for as long as no update has won the game, the scene after an even
\* number of steps is the one the frame began in and after an odd number the
\* other one.
C19_EscapeAlternates ==
  /\ (last.upd = "game" /\ "Escape" \in keys /\ Len(coins) >= 1) =>
       current = "pause"
  /\ (last.upd = "pause" /\ "Escape" \in keys) => current = "game"
  /\ ( /\ frameScene \in {"game", "pause"}
       /\ "Escape" \in keys
       /\ "Enter" \notin keys
       /\ ~mouseDown
       /\ current /= "menu" ) =>
       current = IF frameSteps % 2 = 0 THEN frameScene
                 ELSE Toggled(frameScene)

\* C19 witness: a frame that began in game with Escape held has made two
\* updates, the game's and then the pause's, and the scene is game again
C19_Witness ==
  /\ pc = "draw"
  /\ frameScene = "game"
  /\ "Escape" \in keys
  /\ frameSteps = 2
  /\ last.upd = "pause"
  /\ current = "game"
  /\ Len(coins) >= 1

\* the update calls among the logged calls
UpdateCalls(calls) == SelectSeq(calls, LAMBDA c : c[1] = "update")

\* C20: every step of the catch-up loop makes one update call, on the scene
\* that is current when the step begins, which is the scene the step before
\* left current; nothing but an update call changes the scene or the game
\* state, so a frame with no step changes none; and a frame draws once, when
\* its steps are over, the scene that is current then.
C20_StepsFollowCurrent ==
  /\ [](last.upd \in Scenes =>
         /\ UpdateCalls(last.calls) = << <<"update", last.cur0, last.cur0>> >>
         /\ last.calls[1] = <<"update", last.cur0, last.cur0>>
         /\ last.upd = last.cur0)
  /\ []((pc = "draw" /\ frameSteps = 0) =>
         (current = frameScene /\ last = NoUpdate))
  /\ [](pc \in {"while", "draw"} <=> (drawn = "none" /\ frameScene /= "none"))
  /\ [](drawn /= "none" => drawn = current)
  /\ [][updates' = updates + 1 => last'.cur0 = current]_vars
  /\ [][updates' = updates => scene' = scene]_vars
  /\ [][drawn' /= drawn =>
          \/ pc = "idle" /\ pc' = "while" /\ drawn' = "none"
          \/ pc = "draw" /\ pc' = "idle" /\ drawn' = current]_vars

\* C20 witness: a frame that began in the menu made two steps, the second an
\* update of the game scene, and is about to draw the game scene
C20_Witness ==
  /\ pc = "draw"
  /\ frameSteps = 2
  /\ frameScene = "menu"
  /\ last.upd = "game"
  /\ current = "game"

====
